---- MODULE Spec2Model ----
(***************************************************************************)
(* Model of KnowledgeServiceImpl (knowledge-service-impl.ts): the notes,   *)
(* links and notes_fts relations of the embedded store, the vault's        *)
(* document files, createNote / updateNote / deleteNote /                  *)
(* scanAndIndexVault split at their await points, and search and getLinks  *)
(* as functions of the store.                                              *)
(*                                                                         *)
(* Strings are sequences of one-character strings, so that slug            *)
(* derivation, link extraction and markdown formatting are computed        *)
(* character by character as the code does.                                *)
(*                                                                         *)
(* The store is better-sqlite3, which is built with                        *)
(* SQLITE_DEFAULT_FOREIGN_KEYS=1: the FOREIGN KEY clauses of the links     *)
(* table are enforced (deleteNote relies on it: "links cascade delete").   *)
(* The store runs in autocommit mode: the code opens no transaction, so    *)
(* every statement that succeeded before a throwing one stays committed.   *)
(***************************************************************************)
EXTENDS Integers, Sequences, FiniteSets, TLC

VARIABLES notes, links, fts, files, clock, pc, op, res, calls, overlap

vars == <<notes, links, fts, files, clock, pc, op, res, calls, overlap>>

\* ------------------------------------------------------------------ bounds

\* The clock (Date.now()) runs over 0..MaxClock.
MaxClock == 1

\* At most MaxCalls operations are started in one behaviour.
MaxCalls == 3

\* The concurrent callers.
Procs == {1, 2}

\* ------------------------------------------------------------------ strings

\* this.vaultPath: the directory named VAULT_DIR beside the module.
vaultPath == <<"knowledge-vault">>

MdExt == <<".", "m", "d">>

\* The titles callers pass.
Titles == { <<"a">>, <<"A">>, <<"a", " ", " ", "b">> }

\* The titles createNote is called with: those, and the empty one.
CreateTitles == Titles \cup { <<>> }

\* The contents callers pass.
Contents ==
    { <<>>,
      <<"[", "[", "a", "]", "]", "[", "[", "a", "]", "]">>,
      <<"x", "[", "[", "A", "]", "]">> }

\* The tag lists callers pass to createNote (tags = [] is the default).
TagLists == { <<>> }

\* String.prototype.toLowerCase on one character.
LowerChar(c) ==
    CASE c = "A" -> "a"
      [] c = "B" -> "b"
      [] c = "T" -> "t"
      [] OTHER -> c

toLowerCase(s) == [i \in 1..Len(s) |-> LowerChar(s[i])]

\* \s of the regular expression.
IsWhitespace(c) == c \in {" ", "\t", "\n"}

\* s without its leading whitespace run.
RECURSIVE SkipWhitespace(_)
SkipWhitespace(s) ==
    IF s # <<>> /\ IsWhitespace(Head(s)) THEN SkipWhitespace(Tail(s)) ELSE s

\* s.replace(/\s+/g, '-')
RECURSIVE ReplaceWhitespaceRuns(_)
ReplaceWhitespaceRuns(s) ==
    IF s = <<>> THEN <<>>
    ELSE IF IsWhitespace(Head(s))
         THEN <<"-">> \o ReplaceWhitespaceRuns(SkipWhitespace(s))
         ELSE <<Head(s)>> \o ReplaceWhitespaceRuns(Tail(s))

\* createNote: const id = title.toLowerCase().replace(/\s+/g, '-')
DeriveId(title) == ReplaceWhitespaceRuns(toLowerCase(title))

\* createNote: path.join(this.vaultPath, `${title}.md`)
FilePath(title) == <<vaultPath, title \o MdExt>>

\* DB_PATH: the store's own file, kept in the vault directory.
DB_PATH == <<"k", "n", "o", "w", "l", "e", "d", "g", "e", ".", "d", "b">>

\* f.endsWith(suffix)
endsWith(f, suffix) ==
    Len(f) >= Len(suffix) /\ SubSeq(f, Len(f) - Len(suffix) + 1, Len(f)) = suffix

\* path.basename(file, ext): the extension is dropped unless it is the whole name.
basename(file, ext) ==
    IF endsWith(file, ext) /\ file # ext THEN SubSeq(file, 1, Len(file) - Len(ext)) ELSE file

\* The index of the first "]" of s at or after position i, 0 if none.
RECURSIVE FirstClose(_, _)
FirstClose(s, i) ==
    IF i > Len(s) THEN 0
    ELSE IF s[i] = "]" THEN i
    ELSE FirstClose(s, i + 1)

\* One attempt of /\[\[([^\]]+)\]\]/ at position i: the index of the match's
\* last character, 0 if there is no match starting at i.
MatchAt(s, i) ==
    IF i + 1 <= Len(s) /\ s[i] = "[" /\ s[i + 1] = "["
    THEN LET j == FirstClose(s, i + 2)
         IN IF j > i + 2 /\ j + 1 <= Len(s) /\ s[j + 1] = "]" THEN j + 1 ELSE 0
    ELSE 0

\* extractLinks: the while loop over linkRegex.exec(content), from position i.
RECURSIVE ExtractFrom(_, _)
ExtractFrom(s, i) ==
    IF i > Len(s) THEN <<>>
    ELSE LET e == MatchAt(s, i)
         IN IF e = 0 THEN ExtractFrom(s, i + 1)
            ELSE << [to |-> SubSeq(s, i + 2, e - 2),
                     type |-> "reference",
                     context |-> SubSeq(s, i, e)] >> \o ExtractFrom(s, e + 1)

extractLinks(content) == ExtractFrom(content, 1)

\* tags.map(tag => `#${tag}`).join(' ')
RECURSIVE JoinTags(_)
JoinTags(tags) ==
    IF tags = <<>> THEN <<>>
    ELSE IF Len(tags) = 1 THEN <<"#">> \o tags[1]
    ELSE <<"#">> \o tags[1] \o <<" ">> \o JoinTags(Tail(tags))

formatNoteAsMarkdown(note) ==
    <<"#", " ">> \o note.title \o <<"\n", "\n">>
    \o (IF Len(note.tags) > 0
        THEN <<"T", "a", "g", "s", ":", " ">> \o JoinTags(note.tags) \o <<"\n", "\n">>
        ELSE <<>>)
    \o note.content

\* ------------------------------------------------------------------ frontmatter

\* content.split(sep) for a one-character separator.
RECURSIVE Split(_, _)
Split(s, sep) ==
    IF \A i \in 1..Len(s) : s[i] # sep THEN <<s>>
    ELSE LET k == CHOOSE i \in 1..Len(s) : s[i] = sep /\ \A j \in 1..(i - 1) : s[j] # sep
         IN <<SubSeq(s, 1, k - 1)>> \o Split(SubSeq(s, k + 1, Len(s)), sep)

\* lines.join(sep)
RECURSIVE Join(_, _)
Join(lines, sep) ==
    IF lines = <<>> THEN <<>>
    ELSE IF Len(lines) = 1 THEN lines[1]
    ELSE lines[1] \o <<sep>> \o Join(Tail(lines), sep)

\* s without its trailing whitespace run.
RECURSIVE SkipTrailingWhitespace(_)
SkipTrailingWhitespace(s) ==
    IF s # <<>> /\ IsWhitespace(s[Len(s)])
    THEN SkipTrailingWhitespace(SubSeq(s, 1, Len(s) - 1))
    ELSE s

\* String.prototype.trim
trim(s) == SkipTrailingWhitespace(SkipWhitespace(s))

FrontmatterFence == <<"-", "-", "-">>

\* lines.indexOf('---', 1) counted from 1: the first line after the first that
\* is the fence, 0 if none.
ClosingFence(lines) ==
    IF \E k \in 2..Len(lines) : lines[k] = FrontmatterFence
    THEN CHOOSE k \in 2..Len(lines) :
             lines[k] = FrontmatterFence /\ \A j \in 2..(k - 1) : lines[j] # FrontmatterFence
    ELSE 0

\* The keyword of a header pattern matches s at position i, letter case ignored.
KeywordAt(s, i, word) ==
    /\ i + Len(word) - 1 <= Len(s)
    /\ toLowerCase(SubSeq(s, i, i + Len(word) - 1)) = word

\* The length of the whitespace run of s that starts at position j.
RECURSIVE WhitespaceRun(_, _)
WhitespaceRun(s, j) ==
    IF j <= Len(s) /\ IsWhitespace(s[j]) THEN 1 + WhitespaceRun(s, j + 1) ELSE 0

\* The last position of the run of characters other than "\n" that starts at j.
RECURSIVE LineEnd(_, _)
LineEnd(s, j) ==
    IF j + 1 <= Len(s) /\ s[j + 1] # "\n" THEN LineEnd(s, j + 1) ELSE j

\* One attempt of /word\s*(.+)/i at position i: the capture, or no match. \s*
\* takes the longest whitespace run after which one character other than "\n"
\* is left for (.+), which then runs to the end of that line.
RestOfLineAt(s, i, word) ==
    IF ~KeywordAt(s, i, word) THEN [has |-> FALSE, val |-> <<>>]
    ELSE LET j == i + Len(word)
             starts == {k \in 0..WhitespaceRun(s, j) : j + k <= Len(s) /\ s[j + k] # "\n"}
         IN IF starts = {} THEN [has |-> FALSE, val |-> <<>>]
            ELSE LET k == CHOOSE x \in starts : \A y \in starts : y <= x
                 IN [has |-> TRUE, val |-> SubSeq(s, j + k, LineEnd(s, j + k))]

\* One attempt of /word\s*\[([^\]]+)\]/i at position i.
BracketedAt(s, i, word) ==
    IF ~KeywordAt(s, i, word) THEN [has |-> FALSE, val |-> <<>>]
    ELSE LET j == i + Len(word) + WhitespaceRun(s, i + Len(word))
         IN IF j <= Len(s) /\ s[j] = "[" /\ FirstClose(s, j + 1) > j + 1
            THEN [has |-> TRUE, val |-> SubSeq(s, j + 1, FirstClose(s, j + 1) - 1)]
            ELSE [has |-> FALSE, val |-> <<>>]

\* frontmatter.match(/word\s*(.+)/i): the first position with a match.
RECURSIVE MatchRestOfLine(_, _, _)
MatchRestOfLine(s, i, word) ==
    IF i > Len(s) THEN [has |-> FALSE, val |-> <<>>]
    ELSE IF RestOfLineAt(s, i, word).has THEN RestOfLineAt(s, i, word)
    ELSE MatchRestOfLine(s, i + 1, word)

\* frontmatter.match(/word\s*\[([^\]]+)\]/i): the first position with a match.
RECURSIVE MatchBracketed(_, _, _)
MatchBracketed(s, i, word) ==
    IF i > Len(s) THEN [has |-> FALSE, val |-> <<>>]
    ELSE IF BracketedAt(s, i, word).has THEN BracketedAt(s, i, word)
    ELSE MatchBracketed(s, i + 1, word)

\* t.trim().replace(/^["']/g, '').replace(/["']$/g, '')
StripQuotes(t) ==
    LET a == trim(t)
        b == IF a # <<>> /\ Head(a) \in {"\"", "'"} THEN Tail(a) ELSE a
    IN IF b # <<>> /\ b[Len(b)] \in {"\"", "'"} THEN SubSeq(b, 1, Len(b) - 1) ELSE b

TitleKeyword == <<"t", "i", "t", "l", "e", ":">>

TagsKeyword == <<"t", "a", "g", "s", ":">>

\* parseFrontmatter: the title (if the header names one) and the tags.
parseFrontmatter(content) ==
    LET lines == Split(content, "\n")
        endIndex == ClosingFence(lines)
    IN IF lines[1] = FrontmatterFence /\ endIndex > 0
       THEN LET frontmatter == Join(SubSeq(lines, 2, endIndex - 1), "\n")
                titleMatch == MatchRestOfLine(frontmatter, 1, TitleKeyword)
                tagsMatch == IF MatchBracketed(frontmatter, 1, TagsKeyword).has
                             THEN MatchBracketed(frontmatter, 1, TagsKeyword)
                             ELSE MatchRestOfLine(frontmatter, 1, TagsKeyword)
            IN [title |-> IF titleMatch.has
                          THEN [has |-> TRUE, val |-> trim(titleMatch.val)]
                          ELSE [has |-> FALSE, val |-> <<>>],
                tags |-> IF tagsMatch.has
                         THEN LET parts == Split(tagsMatch.val, ",")
                              IN [i \in 1..Len(parts) |-> StripQuotes(parts[i])]
                         ELSE <<>>]
       ELSE [title |-> [has |-> FALSE, val |-> <<>>], tags |-> <<>>]

\* ------------------------------------------------------------------ JSON

\* JSON.stringify of one string: quoted, with " and \ escaped.
RECURSIVE EscapeChars(_)
EscapeChars(s) ==
    IF s = <<>> THEN <<>>
    ELSE IF Head(s) \in {"\"", "\\"}
         THEN <<"\\", Head(s)>> \o EscapeChars(Tail(s))
         ELSE <<Head(s)>> \o EscapeChars(Tail(s))

RECURSIVE StringifyItems(_)
StringifyItems(tags) ==
    IF tags = <<>> THEN <<>>
    ELSE <<"\"">> \o EscapeChars(tags[1]) \o <<"\"">>
         \o (IF Len(tags) > 1 THEN <<",">> \o StringifyItems(Tail(tags)) ELSE <<>>)

\* An encoding of the tags that does not quote them.
JSONStringifyUnquoted(tags) == <<"[">> \o Join(tags, ",") \o <<"]">>

\* JSON.stringify(note.tags)
JSONStringify(tags) == <<"[">> \o StringifyItems(tags) \o <<"]">>

\* JSON.parse of an array of strings, from position i of s; inStr says whether
\* position i is inside a string literal, cur is the literal read so far.
RECURSIVE ParseItems(_, _, _, _)
ParseItems(s, i, inStr, cur) ==
    IF i > Len(s) THEN <<>>
    ELSE IF inStr
         THEN IF s[i] = "\\" /\ i < Len(s)
              THEN ParseItems(s, i + 2, TRUE, Append(cur, s[i + 1]))
              ELSE IF s[i] = "\""
                   THEN <<cur>> \o ParseItems(s, i + 1, FALSE, <<>>)
                   ELSE ParseItems(s, i + 1, TRUE, Append(cur, s[i]))
         ELSE IF s[i] = "\""
              THEN ParseItems(s, i + 1, TRUE, <<>>)
              ELSE ParseItems(s, i + 1, FALSE, <<>>)

\* JSON.parse(row.tags || '[]')
JSONParse(s) == ParseItems(IF s = <<>> THEN <<"[", "]">> ELSE s, 1, FALSE, <<>>)

\* ------------------------------------------------------------------ the store

\* The three relations of createTables, as one value.
Db == [notes |-> notes, links |-> links, fts |-> fts]

NullNote ==
    [id |-> <<>>, title |-> <<>>, content |-> <<>>, path |-> <<>>, tags |-> <<>>,
     created |-> 0, modified |-> 0, links |-> <<>>]

\* insert.run(note.id, note.title, note.content, note.path,
\*            JSON.stringify(note.tags), note.created.getTime(), note.modified.getTime())
NoteRow(note) ==
    [id |-> note.id, title |-> note.title, content |-> note.content,
     path |-> note.path, tags |-> JSONStringify(note.tags),
     created |-> note.created, modified |-> note.modified]

\* An INSERT OR REPLACE INTO notes: the row of the same id is replaced.
InsertOrReplaceNote(db, note) ==
    [db |-> [db EXCEPT !.notes =
                [i \in DOMAIN db.notes \cup {note.id} |->
                    IF i = note.id THEN NoteRow(note) ELSE db.notes[i]]],
     ok |-> TRUE, err |-> ""]

\* An INSERT INTO a notes table declared without PRIMARY KEY and UNIQUE: the
\* row is added beside a row of the same id or path.
InsertNoteUnconstrained(db, note) ==
    LET rowKey == IF note.id \in DOMAIN db.notes THEN note.id \o <<"#">> ELSE note.id
    IN [db |-> [db EXCEPT !.notes =
                   [i \in DOMAIN db.notes \cup {rowKey} |->
                      IF i = rowKey THEN NoteRow(note) ELSE db.notes[i]]],
        ok |-> TRUE, err |-> ""]

\* INSERT INTO notes: id is the PRIMARY KEY and path is UNIQUE; a conflict throws
\* and the relation is unchanged.
InsertNote(db, note) ==
    IF note.id \in DOMAIN db.notes
       \/ \E i \in DOMAIN db.notes : db.notes[i].path = note.path
    THEN [db |-> db, ok |-> FALSE, err |-> "SQLITE_CONSTRAINT_UNIQUE"]
    ELSE [db |-> [db EXCEPT !.notes =
                     [i \in DOMAIN db.notes \cup {note.id} |->
                        IF i = note.id THEN NoteRow(note) ELSE db.notes[i]]],
          ok |-> TRUE, err |-> ""]

\* indexNoteInFTS: INSERT OR REPLACE INTO notes_fts. The virtual table has no
\* key but its implicit rowid, which the statement does not give: no row ever
\* conflicts, so the statement adds a row.
indexNoteInFTS(db, note) ==
    [db EXCEPT !.fts =
        Append(@, [id |-> note.id, title |-> note.title, content |-> note.content])]

\* FOREIGN KEY (from_id) REFERENCES notes(id), FOREIGN KEY (to_id) REFERENCES notes(id)
ForeignKeyOk(db, row) ==
    row.from_id \in DOMAIN db.notes /\ row.to_id \in DOMAIN db.notes

\* insertLink.run(...) for each row in turn: the first row that violates a
\* foreign key throws, and the rows inserted before it stay.
RECURSIVE InsertLinkRows(_, _)
InsertLinkRows(db, rows) ==
    IF rows = <<>> THEN [db |-> db, ok |-> TRUE, err |-> ""]
    ELSE IF ForeignKeyOk(db, Head(rows))
         THEN InsertLinkRows([db EXCEPT !.links = Append(@, Head(rows))], Tail(rows))
         ELSE [db |-> db, ok |-> FALSE, err |-> "SQLITE_CONSTRAINT_FOREIGNKEY"]

\* createBacklinks: INSERT OR IGNORE INTO links (from_id, to_id, 'backlink', '')
\* for each link. The links table declares no UNIQUE or PRIMARY KEY constraint,
\* so OR IGNORE never finds a conflict to ignore.
createBacklinks(db, note) ==
    InsertLinkRows(db,
        [i \in 1..Len(note.links) |->
            [from_id |-> note.links[i].to, to_id |-> note.id,
             type |-> "backlink", context |-> <<>>]])

\* updateLinks: DELETE FROM links WHERE from_id = ?, then one INSERT per link,
\* then createBacklinks.
updateLinks(db, note) ==
    LET cleared == [db EXCEPT !.links = SelectSeq(@, LAMBDA r : r.from_id # note.id)]
        refs == [i \in 1..Len(note.links) |->
                    [from_id |-> note.id, to_id |-> note.links[i].to,
                     type |-> note.links[i].type, context |-> note.links[i].context]]
        r == InsertLinkRows(cleared, refs)
    IN IF r.ok THEN createBacklinks(r.db, note) ELSE r

\* readNote: SELECT * FROM notes WHERE id = ?
readNote(db, noteId) ==
    IF noteId \in DOMAIN db.notes
    THEN LET row == db.notes[noteId]
         IN [found |-> TRUE,
             note |-> [id |-> row.id, title |-> row.title, content |-> row.content,
                       path |-> row.path, tags |-> JSONParse(row.tags),
                       created |-> row.created, modified |-> row.modified,
                       links |-> <<>>]]
    ELSE [found |-> FALSE, note |-> NullNote]

\* rows.map(row => ({ to: row.other_id, type: row.type, context: row.context }))
LinkOf(otherId, row) == [to |-> otherId, type |-> row.type, context |-> row.context]

OutgoingLinks(db, noteId) ==
    LET rows == SelectSeq(db.links, LAMBDA r : r.from_id = noteId)
    IN [i \in 1..Len(rows) |-> LinkOf(rows[i].to_id, rows[i])]

IncomingLinks(db, noteId) ==
    LET rows == SelectSeq(db.links, LAMBDA r : r.to_id = noteId)
    IN [i \in 1..Len(rows) |-> LinkOf(rows[i].from_id, rows[i])]

\* getLinks: the outgoing rows, UNION ALL the incoming rows, LIMIT ?.
getLinks(db, noteId, direction, limit) ==
    LET all == (IF direction \in {"outgoing", "both"}
                THEN OutgoingLinks(db, noteId) ELSE <<>>)
               \o (IF direction \in {"incoming", "both"}
                   THEN IncomingLinks(db, noteId) ELSE <<>>)
        got == SubSeq(all, 1, IF Len(all) < limit THEN Len(all) ELSE limit)
    IN [links |-> got, totalCount |-> Len(got)]

\* The characters that the tokenizer of notes_fts (porter unicode61) takes as
\* part of a token: the letters.
Letters ==
    {"a", "b", "c", "d", "e", "f", "g", "h", "i", "j", "k", "l", "m",
     "n", "o", "p", "q", "r", "s", "t", "u", "v", "w", "x", "y", "z",
     "A", "B", "T"}

\* The tokens of a text, lower-cased; cur is the token read so far. (The
\* words met here are their own stems.)
RECURSIVE TokensFrom(_, _)
TokensFrom(s, cur) ==
    IF s = <<>> THEN (IF cur = <<>> THEN {} ELSE {cur})
    ELSE IF Head(s) \in Letters
         THEN TokensFrom(Tail(s), Append(cur, LowerChar(Head(s))))
         ELSE (IF cur = <<>> THEN {} ELSE {cur}) \cup TokensFrom(Tail(s), <<>>)

\* notes_fts MATCH ? for a query of one word: the word is a token of the
\* entry's title or content (id is UNINDEXED).
FtsMatch(entry, query) ==
    TokensFrom(query, <<>>) \subseteq
        (TokensFrom(entry.title, <<>>) \cup TokensFrom(entry.content, <<>>))

\* row.content.substring(0, 200)
PreviewLength == 200

\* The tags of a notes row: SELECT value FROM json_each(n.tags).
JsonEach(tagsColumn) ==
    {JSONParse(tagsColumn)[k] : k \in 1..Len(JSONParse(tagsColumn))}

\* search: the statement has one ? for the query, one ? for the tag filter if
\* tags are given, one ? for the limit, and is run with the query, every tag
\* and the limit; select.all throws when the counts differ. The rows are the
\* matching entries joined with their notes, here in the order of the index
\* (the order by rank is not modelled), cut at limit.
search(db, query, tags, limit) ==
    LET placeholders == IF Len(tags) > 0 THEN 3 ELSE 2
        params == <<query>> \o tags \o <<limit>>
        rows == SelectSeq(db.fts, LAMBDA e :
                    /\ FtsMatch(e, query)
                    /\ e.id \in DOMAIN db.notes
                    /\ Len(tags) > 0 => params[2] \in JsonEach(db.notes[e.id].tags))
        got == SubSeq(rows, 1, IF Len(rows) < limit THEN Len(rows) ELSE limit)
    IN IF Len(params) # placeholders
       THEN [ok |-> FALSE, err |-> "RangeError", rows |-> <<>>]
       ELSE [ok |-> TRUE, err |-> "",
             rows |-> [k \in 1..Len(got) |->
                         LET n == db.notes[got[k].id]
                         IN [noteId |-> n.id, title |-> n.title,
                             preview |-> SubSeq(n.content, 1,
                                            IF Len(n.content) < PreviewLength
                                            THEN Len(n.content) ELSE PreviewLength)
                                         \o <<".", ".", ".">>]]]

\* createNote, lines 136-149: the note built before the first await.
NewNote(title, content, tags, now) ==
    [id |-> DeriveId(title), title |-> title, content |-> content,
     path |-> FilePath(title), tags |-> tags, created |-> now, modified |-> now,
     links |-> extractLinks(content)]

\* createNote, lines 156-175: the statements after the file write, run without
\* an await between them.
CreateStore(db, note) ==
    LET r == InsertNote(db, note)
    IN IF r.ok THEN updateLinks(indexNoteInFTS(r.db, note), note) ELSE r

NoUpdates ==
    [title |-> [has |-> FALSE, val |-> <<>>],
     content |-> [has |-> FALSE, val |-> <<>>],
     tags |-> [has |-> FALSE, val |-> <<>>]]

\* updateNote, lines 209-214: { ...note, ...updates, modified: new Date(),
\* links: this.extractLinks(updates.content || note.content) }. An empty string
\* is falsy, so an empty supplied content takes the links of the old content.
MergeUpdates(note, updates, now) ==
    [note EXCEPT
        !.title = IF updates.title.has THEN updates.title.val ELSE @,
        !.content = IF updates.content.has THEN updates.content.val ELSE @,
        !.tags = IF updates.tags.has THEN updates.tags.val ELSE @,
        !.modified = now,
        !.links = extractLinks(IF updates.content.has /\ updates.content.val # <<>>
                               THEN updates.content.val ELSE note.content)]

\* An UPDATE that also sets created to the time of the update.
UpdateRowTouchesCreated(db, noteId, updatedNote) ==
    IF noteId \in DOMAIN db.notes
    THEN [db EXCEPT !.notes[noteId] =
            [@ EXCEPT !.title = updatedNote.title,
                      !.content = updatedNote.content,
                      !.tags = JSONStringify(updatedNote.tags),
                      !.created = updatedNote.modified,
                      !.modified = updatedNote.modified]]
    ELSE db

\* updateNote, lines 217-232: UPDATE notes SET title, content, tags, modified
\* WHERE id = ?; a statement that matches no row changes nothing and succeeds.
UpdateRow(db, noteId, updatedNote) ==
    IF noteId \in DOMAIN db.notes
    THEN [db EXCEPT !.notes[noteId] =
            [@ EXCEPT !.title = updatedNote.title,
                      !.content = updatedNote.content,
                      !.tags = JSONStringify(updatedNote.tags),
                      !.modified = updatedNote.modified]]
    ELSE db

\* updateNote, lines 237-241: the statements after the file write.
UpdateDerived(db, updatedNote) ==
    updateLinks(indexNoteInFTS(db, updatedNote), updatedNote)

\* A deleteNote whose cascade reaches only the rows the note is the origin of.
DeleteRowsOutgoingOnly(db, noteId) ==
    [notes |-> [i \in DOMAIN db.notes \ {noteId} |-> db.notes[i]],
     links |-> SelectSeq(db.links, LAMBDA r : r.from_id # noteId),
     fts |-> SelectSeq(db.fts, LAMBDA e : e.id # noteId)]

\* A deleteNote that removes the note's edges and search entry and keeps its
\* record.
DeleteRowsKeepRecord(db, noteId) ==
    [notes |-> db.notes,
     links |-> SelectSeq(db.links, LAMBDA r : r.from_id # noteId /\ r.to_id # noteId),
     fts |-> SelectSeq(db.fts, LAMBDA e : e.id # noteId)]

\* deleteNote, lines 254-259: DELETE FROM notes WHERE id = ? (ON DELETE CASCADE
\* removes the links rows whose from_id or to_id is the note), then
\* DELETE FROM notes_fts WHERE id = ?.
DeleteRows(db, noteId) ==
    [notes |-> [i \in DOMAIN db.notes \ {noteId} |-> db.notes[i]],
     links |-> SelectSeq(db.links, LAMBDA r : r.from_id # noteId /\ r.to_id # noteId),
     fts |-> SelectSeq(db.fts, LAMBDA e : e.id # noteId)]

\* ------------------------------------------------------------------ callers

\* The ids readNote, updateNote and deleteNote are called with.
NoteIds == {DeriveId(t) : t \in Titles}

Absent == [has |-> FALSE, val |-> <<>>]

Supplied(v) == [has |-> TRUE, val |-> v]

\* The partial requests updateNote is called with: an empty content, a content
\* without a link, a new title and tag list.
UpdateRequests ==
    { [title |-> Absent, content |-> Supplied(<<>>), tags |-> Absent],
      [title |-> Absent, content |-> Supplied(<<"x">>), tags |-> Absent],
      [title |-> Supplied(<<"A">>), content |-> Absent, tags |-> Supplied(<< <<"t">> >>)] }

\* What a caller that is not inside an operation holds.
\* What a caller got from its last operation; "none" while one is running.
\* logged is what a scan wrote with logger.error, file by file.
NoRes == [status |-> "none", kind |-> "none", noteId |-> <<>>, error |-> "", logged |-> <<>>]

\* The locals of a scanAndIndexVault call: mdFiles, the position of its loop,
\* what the loop did with each file so far ("skipped", "imported", or the
\* error it logged), and what the caller had got from its call before.
NoScan == [active |-> FALSE, list |-> <<>>, index |-> 0, done |-> <<>>, prev |-> NoRes]

\* The files a scan logged as failed, with the errors.
Logged(scan) == SelectSeq(scan.done, LAMBDA d : d.outcome \notin {"skipped", "imported"})

NoOp ==
    [kind |-> "none", noteId |-> <<>>, found |-> FALSE, note |-> NullNote,
     updates |-> NoUpdates, updated |-> NullNote, scan |-> NoScan]

\* The call of record o returned value.
Returned(o, value) ==
    [status |-> value, kind |-> o.kind, noteId |-> o.noteId, error |-> "",
     logged |-> Logged(o.scan)]

\* The call of record o was rejected with error err.
Rejected(o, err) ==
    [status |-> "error", kind |-> o.kind, noteId |-> o.noteId, error |-> err,
     logged |-> Logged(o.scan)]

Idle(p) == pc[p] = "idle"

\* Callers are interchangeable: the next call is taken by the first idle one.
\* Unless callers overlap, a call starts only when no other call is running.
MayCall(p) ==
    /\ Idle(p)
    /\ \A q \in Procs : q < p => ~Idle(q)
    /\ overlap \/ \A q \in Procs : Idle(q)
    /\ calls < MaxCalls

\* setupDatabase: new Database(dbPath) leaves the store's file in the vault
\* directory, which holds no document.
EmptyVault == [f \in {<<vaultPath, DB_PATH>>} |-> <<>>]

\* A document with a header that names a title and a tag.
FrontmatterContent ==
    <<"-", "-", "-", "\n", "t", "i", "t", "l", "e", ":", " ", "A", "\n",
      "t", "a", "g", "s", ":", " ", "[", "t", "]", "\n", "-", "-", "-">>

\* The vaults the service is constructed over when documents are already
\* there: a document whose header gives it the name of the other document;
\* a document that refers to the other one, whose header renames it.
Vaults ==
    { EmptyVault @@ (FilePath(<<"a">>) :> FrontmatterContent) @@ (FilePath(<<"A">>) :> <<>>),
      EmptyVault
        @@ (FilePath(<<"a", " ", " ", "b">>)
              :> <<"[", "[", "a", "]", "]", "[", "[", "a", "]", "]">>)
        @@ (FilePath(<<"a">>) :> FrontmatterContent) }

\* The state after construction over a vault without documents, once the scan
\* that initializeVault starts has listed the directory and returned.
Init ==
    /\ notes = [i \in {} |-> NullNote]
    /\ links = <<>>
    /\ fts = <<>>
    /\ files = EmptyVault
    /\ clock = 0
    /\ pc = [p \in Procs |-> "idle"]
    /\ op = [p \in Procs |-> NoOp]
    /\ res = [p \in Procs |-> NoRes]
    /\ calls = 0

\* Date.now() advances.
Tick ==
    /\ clock < MaxClock
    /\ clock' = clock + 1
    /\ UNCHANGED <<notes, links, fts, files, pc, op, res, calls, overlap>>

SetDb(db) ==
    /\ notes' = db.notes
    /\ links' = db.links
    /\ fts' = db.fts

Finish(p, r) ==
    /\ pc' = [pc EXCEPT ![p] = "idle"]
    /\ op' = [op EXCEPT ![p] = NoOp]
    /\ res' = [res EXCEPT ![p] = r]

\* fs.writeFile(path, text) succeeded.
WriteFile(path, text) ==
    files' = [f \in DOMAIN files \cup {path} |-> IF f = path THEN text ELSE files[f]]

\* scanAndIndexVault, lines 388-390: catch (error) { this.logger.error(...) },
\* and the loop goes on with the next file.
OnImportFailureBreak(scan, err) ==
    [scan EXCEPT !.done = Append(@, [file |-> scan.list[scan.index], outcome |-> err]),
                 !.index = Len(scan.list) + 1]

OnImportFailure(scan, err) ==
    [scan EXCEPT !.done = Append(@, [file |-> scan.list[scan.index], outcome |-> err]),
                 !.index = @ + 1]

\* The loop is through with its file without a failure: continue, or the end of
\* the loop body.
Processed(scan, outcome) ==
    [scan EXCEPT !.done = Append(@, [file |-> scan.list[scan.index], outcome |-> outcome]),
                 !.index = @ + 1]

\* The scan of caller p goes on with the locals scan.
ScanResume(p, scan) ==
    /\ pc' = [pc EXCEPT ![p] = "scan_read"]
    /\ op' = [op EXCEPT ![p] = [NoOp EXCEPT !.kind = "scan", !.scan = scan]]
    /\ res' = res

\* createNote ends with r: for the caller, or at line 387 inside a scan.
CreateEnds(p, r) ==
    IF op[p].scan.active
    THEN ScanResume(p, IF r.status = "error"
                       THEN OnImportFailure(op[p].scan, r.error)
                       ELSE Processed(op[p].scan, "imported"))
    ELSE Finish(p, r)

\* createNote, lines 135-152: the call runs up to the first await.
CreateCall(p, title, content, tags) ==
    /\ MayCall(p)
    /\ calls' = calls + 1
    /\ pc' = [pc EXCEPT ![p] = "create_write"]
    /\ op' = [op EXCEPT ![p] =
                [kind |-> "create", noteId |-> DeriveId(title), found |-> FALSE,
                 note |-> NewNote(title, content, tags, clock), updates |-> NoUpdates,
                 updated |-> NullNote, scan |-> NoScan]]
    /\ res' = [res EXCEPT ![p] = NoRes]
    /\ UNCHANGED <<notes, links, fts, files, clock, overlap>>

\* createNote, line 153: await fs.writeFile(filePath, ...) resolves.
CreateWriteFile(p) ==
    /\ pc[p] = "create_write"
    /\ WriteFile(op[p].note.path, formatNoteAsMarkdown(op[p].note))
    /\ pc' = [pc EXCEPT ![p] = "create_db"]
    /\ UNCHANGED <<notes, links, fts, clock, op, res, calls, overlap>>

\* createNote, line 153: await fs.writeFile(filePath, ...) rejects.
CreateWriteFileFails(p) ==
    /\ pc[p] = "create_write"
    /\ CreateEnds(p, Rejected(op[p], "EIO"))
    /\ UNCHANGED <<notes, links, fts, files, clock, calls, overlap>>

\* createNote, lines 155-178: the store statements, then return note; a
\* statement that throws rejects the call.
CreateCommit(p) ==
    /\ pc[p] = "create_db"
    /\ LET r == CreateStore(Db, op[p].note)
       IN /\ SetDb(r.db)
          /\ CreateEnds(p, IF r.ok THEN Returned(op[p], "ok") ELSE Rejected(op[p], r.err))
    /\ UNCHANGED <<files, clock, calls, overlap>>

\* updateNote, line 204: readNote runs its SELECT, then the call awaits.
UpdateCall(p, noteId, updates) ==
    /\ MayCall(p)
    /\ calls' = calls + 1
    /\ pc' = [pc EXCEPT ![p] = "update_db"]
    /\ LET r == readNote(Db, noteId)
       IN op' = [op EXCEPT ![p] =
                    [kind |-> "update", noteId |-> noteId, found |-> r.found,
                     note |-> r.note, updates |-> updates, updated |-> NullNote,
                     scan |-> NoScan]]
    /\ res' = [res EXCEPT ![p] = NoRes]
    /\ UNCHANGED <<notes, links, fts, files, clock, overlap>>

\* updateNote, lines 205-207: throw new Error(`Note not found: ...`).
UpdateNotFound(p) ==
    /\ pc[p] = "update_db"
    /\ ~op[p].found
    /\ Finish(p, Rejected(op[p], "Note not found"))
    /\ UNCHANGED <<notes, links, fts, files, clock, calls, overlap>>

\* updateNote, lines 209-235: merge, UPDATE notes, then await fs.writeFile.
UpdateCommit(p) ==
    /\ pc[p] = "update_db"
    /\ op[p].found
    /\ LET updatedNote == MergeUpdates(op[p].note, op[p].updates, clock)
       IN /\ SetDb(UpdateRow(Db, op[p].noteId, updatedNote))
          /\ op' = [op EXCEPT ![p].updated = updatedNote]
    /\ pc' = [pc EXCEPT ![p] = "update_write"]
    /\ UNCHANGED <<files, clock, res, calls, overlap>>

\* updateNote, lines 235-244: the file write resolves, then indexNoteInFTS and
\* updateLinks run and the call returns updatedNote, or a statement throws.
UpdateWriteFile(p) ==
    /\ pc[p] = "update_write"
    /\ WriteFile(op[p].updated.path, formatNoteAsMarkdown(op[p].updated))
    /\ LET r == UpdateDerived(Db, op[p].updated)
       IN /\ SetDb(r.db)
          /\ Finish(p, IF r.ok THEN Returned(op[p], "ok") ELSE Rejected(op[p], r.err))
    /\ UNCHANGED <<clock, calls, overlap>>

\* updateNote, line 235: await fs.writeFile(...) rejects.
UpdateWriteFileFails(p) ==
    /\ pc[p] = "update_write"
    /\ Finish(p, Rejected(op[p], "EIO"))
    /\ UNCHANGED <<notes, links, fts, files, clock, calls, overlap>>

\* deleteNote, line 248: readNote runs its SELECT, then the call awaits.
DeleteCall(p, noteId) ==
    /\ MayCall(p)
    /\ calls' = calls + 1
    /\ pc' = [pc EXCEPT ![p] = "delete_db"]
    /\ LET r == readNote(Db, noteId)
       IN op' = [op EXCEPT ![p] =
                    [kind |-> "delete", noteId |-> noteId, found |-> r.found,
                     note |-> r.note, updates |-> NoUpdates, updated |-> NullNote,
                     scan |-> NoScan]]
    /\ res' = [res EXCEPT ![p] = NoRes]
    /\ UNCHANGED <<notes, links, fts, files, clock, overlap>>

\* deleteNote, lines 249-251: return false.
DeleteNotFound(p) ==
    /\ pc[p] = "delete_db"
    /\ ~op[p].found
    /\ Finish(p, Returned(op[p], "false"))
    /\ UNCHANGED <<notes, links, fts, files, clock, calls, overlap>>

\* deleteNote, lines 253-263: the two DELETE statements, then await fs.unlink.
DeleteCommit(p) ==
    /\ pc[p] = "delete_db"
    /\ op[p].found
    /\ SetDb(DeleteRows(Db, op[p].noteId))
    /\ pc' = [pc EXCEPT ![p] = "delete_unlink"]
    /\ UNCHANGED <<files, clock, op, res, calls, overlap>>

\* deleteNote, lines 262-269: fs.unlink resolves (the file is gone) or rejects
\* (logged); either way the call returns true.
DeleteUnlink(p) ==
    /\ pc[p] = "delete_unlink"
    /\ \/ files' = [f \in DOMAIN files \ {op[p].note.path} |-> files[f]]
       \/ files' = files
    /\ Finish(p, Returned(op[p], "true"))
    /\ UNCHANGED <<notes, links, fts, clock, calls, overlap>>

\* What a scanAndIndexVault call holds when it starts.
ScanOp == [NoOp EXCEPT !.kind = "scan", !.scan = [NoScan EXCEPT !.active = TRUE]]

\* scanAndIndexVault, lines 364-368: the call (always of this.vaultPath) runs
\* up to await fs.readdir(scanPath).
ScanCall(p) ==
    /\ MayCall(p)
    /\ calls' = calls + 1
    /\ pc' = [pc EXCEPT ![p] = "scan_readdir"]
    /\ op' = [op EXCEPT ![p] = [ScanOp EXCEPT !.scan.prev = res[p]]]
    /\ res' = [res EXCEPT ![p] = NoRes]
    /\ UNCHANGED <<notes, links, fts, files, clock, overlap>>

\* The names fs.readdir(this.vaultPath) lists.
DirNames == {f[2] : f \in {g \in DOMAIN files : g[1] = vaultPath}}

\* files.filter(f => f.endsWith('.md') && f !== DB_PATH)
MdFiles == {f \in DirNames : endsWith(f, MdExt) /\ f # DB_PATH}

\* The orders in which a directory listing may give the names of S.
RECURSIVE Orderings(_)
Orderings(S) ==
    IF S = {} THEN {<<>>}
    ELSE UNION {{<<x>> \o rest : rest \in Orderings(S \ {x})} : x \in S}

\* scanAndIndexVault, lines 368-369: fs.readdir resolves, in the order the
\* file system gives; the loop starts with await fs.readFile of the first.
ScanReaddir(p) ==
    /\ pc[p] = "scan_readdir"
    /\ \E list \in Orderings(MdFiles) :
           ScanResume(p, [op[p].scan EXCEPT !.list = list, !.index = 1])
    /\ UNCHANGED <<notes, links, fts, files, clock, calls, overlap>>

\* scanAndIndexVault, line 368: fs.readdir rejects, and so does the scan.
ScanReaddirFails(p) ==
    /\ pc[p] = "scan_readdir"
    /\ Finish(p, Rejected(op[p], "EIO"))
    /\ UNCHANGED <<notes, links, fts, files, clock, calls, overlap>>

\* The file the loop of the scan of caller p is at.
ScanFile(p) == op[p].scan.list[op[p].scan.index]

ScanFilePath(p) == <<vaultPath, ScanFile(p)>>

\* 'SELECT id FROM notes WHERE path = ?'
NoteAtPath(db, path) == \E i \in DOMAIN db.notes : db.notes[i].path = path

ScanAtFile(p) ==
    /\ pc[p] = "scan_read"
    /\ op[p].scan.index <= Len(op[p].scan.list)

\* scanAndIndexVault, lines 374-381: the file is read and a note has its path:
\* continue.
ScanSkipFile(p) ==
    /\ ScanAtFile(p)
    /\ ScanFilePath(p) \in DOMAIN files
    /\ NoteAtPath(Db, ScanFilePath(p))
    /\ ScanResume(p, Processed(op[p].scan, "skipped"))
    /\ UNCHANGED <<notes, links, fts, files, clock, calls, overlap>>

\* scanAndIndexVault, lines 374-387: the file is read and no note has its path:
\* createNote(parsedTitle || title, content, tags) runs up to its first await.
ScanImportFile(p) ==
    /\ ScanAtFile(p)
    /\ ScanFilePath(p) \in DOMAIN files
    /\ ~NoteAtPath(Db, ScanFilePath(p))
    /\ LET content == files[ScanFilePath(p)]
           title == basename(ScanFile(p), MdExt)
           parsed == parseFrontmatter(content)
           finalTitle == IF parsed.title.has /\ parsed.title.val # <<>>
                         THEN parsed.title.val ELSE title
       IN op' = [op EXCEPT ![p] =
                    [kind |-> "create", noteId |-> DeriveId(finalTitle), found |-> FALSE,
                     note |-> NewNote(finalTitle, content, parsed.tags, clock),
                     updates |-> NoUpdates, updated |-> NullNote, scan |-> op[p].scan]]
    /\ pc' = [pc EXCEPT ![p] = "create_write"]
    /\ UNCHANGED <<notes, links, fts, files, clock, res, calls, overlap>>

\* scanAndIndexVault, line 375: await fs.readFile(filePath) rejects; caught.
ScanReadFileFails(p) ==
    /\ ScanAtFile(p)
    /\ ScanResume(p, OnImportFailure(op[p].scan, "EIO"))
    /\ UNCHANGED <<notes, links, fts, files, clock, calls, overlap>>

\* scanAndIndexVault, lines 391-393: the loop is over; the scan returns.
ScanComplete(p) ==
    /\ pc[p] = "scan_read"
    /\ op[p].scan.index > Len(op[p].scan.list)
    /\ Finish(p, Returned(op[p], "ok"))
    /\ UNCHANGED <<notes, links, fts, files, clock, calls, overlap>>

\* One step of caller p.
Step(p) ==
    \/ \E t \in CreateTitles, c \in Contents, g \in TagLists : CreateCall(p, t, c, g)
    \/ CreateWriteFile(p)
    \/ CreateWriteFileFails(p)
    \/ CreateCommit(p)
    \/ \E i \in NoteIds, u \in UpdateRequests : UpdateCall(p, i, u)
    \/ UpdateNotFound(p)
    \/ UpdateCommit(p)
    \/ UpdateWriteFile(p)
    \/ UpdateWriteFileFails(p)
    \/ \E i \in NoteIds : DeleteCall(p, i)
    \/ DeleteNotFound(p)
    \/ DeleteCommit(p)
    \/ DeleteUnlink(p)
    \/ ScanCall(p)
    \/ ScanReaddir(p)
    \/ ScanReaddirFails(p)
    \/ ScanSkipFile(p)
    \/ ScanImportFile(p)
    \/ ScanReadFileFails(p)
    \/ ScanComplete(p)

Next == Tick \/ \E p \in Procs : Step(p)

\* Callers may overlap: each runs from one await point to the next.
InitOverlap == Init /\ overlap = TRUE

Spec == InitOverlap /\ [][Next]_vars

\* Callers do not overlap: a call starts only when no other call is running.
InitSeq == Init /\ overlap = FALSE

SeqSpec == InitSeq /\ [][Next]_vars

\* The state after construction over a vault with documents: initialize has
\* run scanAndIndexVault up to its await fs.readdir, and the startup scan is
\* the first of the calls, which do not overlap.
InitScan ==
    /\ notes = [i \in {} |-> NullNote]
    /\ links = <<>>
    /\ fts = <<>>
    /\ files \in Vaults
    /\ clock = 0
    /\ pc = [p \in Procs |-> IF p = 1 THEN "scan_readdir" ELSE "idle"]
    /\ op = [p \in Procs |-> IF p = 1 THEN ScanOp ELSE NoOp]
    /\ res = [p \in Procs |-> NoRes]
    /\ calls = 1
    /\ overlap = FALSE

ScanSpec == InitScan /\ [][Next]_vars

\* ------------------------------------------------------------------ claims

AllIdle == \A p \in Procs : Idle(p)

\* Caller p takes a step that ends its call.
Ends(p) == ~Idle(p) /\ pc'[p] = "idle"

\* The links rows of db whose origin is noteId; the reference rows among them.
RowsFrom(db, noteId) == SelectSeq(db.links, LAMBDA r : r.from_id = noteId)

ReferenceRowsFrom(db, noteId) ==
    SelectSeq(db.links, LAMBDA r : r.from_id = noteId /\ r.type = "reference")

\* The search entries of db for noteId.
EntriesOf(db, noteId) == SelectSeq(db.fts, LAMBDA e : e.id = noteId)

\* The reference rows that the links of a note stand for.
ReferenceRowsFor(note) ==
    [i \in 1..Len(note.links) |->
        [from_id |-> note.id, to_id |-> note.links[i].to,
         type |-> "reference", context |-> note.links[i].context]]

EntryFor(note) == [id |-> note.id, title |-> note.title, content |-> note.content]

HasRow(db, row) == \E i \in 1..Len(db.links) : db.links[i] = row

\* The note that the create or update of caller p is writing.
Intended(p) ==
    IF op[p].kind = "create" THEN op[p].note
    ELSE IF pc[p] = "update_db" THEN MergeUpdates(op[p].note, op[p].updates, clock)
    ELSE op[p].updated

\* The note record as it was when the call of p started (callers not overlapping).
RecordBefore(p) ==
    IF op[p].kind = "create" THEN readNote(Db, op[p].noteId)
    ELSE [found |-> op[p].found, note |-> op[p].note]

\* The three representations of the note of caller p are, after the step, all
\* as they were when the call started.
AllBefore(p) ==
    /\ readNote(Db', op[p].noteId) = RecordBefore(p)
    /\ RowsFrom(Db', op[p].noteId) = RowsFrom(Db, op[p].noteId)
    /\ EntriesOf(Db', op[p].noteId) = EntriesOf(Db, op[p].noteId)

\* The three representations of the note of caller p are, after the step, all
\* those of the note the call was writing.
AllAfter(p) ==
    /\ readNote(Db', op[p].noteId) = [found |-> TRUE, note |-> [Intended(p) EXCEPT !.links = <<>>]]
    /\ ReferenceRowsFrom(Db', op[p].noteId) = ReferenceRowsFor(Intended(p))
    /\ \E i \in 1..Len(fts') : fts'[i] = EntryFor(Intended(p))

\* C1: a createNote or updateNote that fails leaves the note record, the links
\* rows whose origin is the note and its search entry either all as before the
\* call or all as the call would have left them (callers not overlapping).
C1_FailureAtomic ==
    [][\A p \in Procs :
          (Ends(p) /\ op[p].kind \in {"create", "update"} /\ res'[p].status = "error")
          => (AllBefore(p) \/ AllAfter(p))]_vars

\* C2: whenever no call is running, the search index holds exactly one entry
\* for each existing note, with the note's title and content, and none for an
\* id that has no note.
C2_OneSearchEntryPerNote ==
    AllIdle =>
        \A i \in NoteIds :
            IF i \in DOMAIN notes
            THEN EntriesOf(Db, i) = << [id |-> i, title |-> notes[i].title,
                                       content |-> notes[i].content] >>
            ELSE EntriesOf(Db, i) = <<>>

\* C3: when the mirror file write of a createNote or updateNote fails, the note
\* record, the links rows and the search index are as they were before the call
\* (callers not overlapping).
C3_MirrorFailureCommitsNothing ==
    [][\A p \in Procs :
          (Ends(p) /\ op[p].kind \in {"create", "update"} /\ res'[p].error = "EIO")
          => /\ readNote(Db', op[p].noteId) = RecordBefore(p)
             /\ links' = links
             /\ fts' = fts]_vars

\* C4: once deleteNote(id) has returned true, no links row has id as its origin
\* or as its target and no search entry has that id (callers not overlapping).
C4_DeleteRemovesEdgesAndEntry ==
    \A p \in Procs :
        (res[p].kind = "delete" /\ res[p].status = "true")
        => /\ \A i \in 1..Len(links) :
                  links[i].from_id # res[p].noteId /\ links[i].to_id # res[p].noteId
           /\ EntriesOf(Db, res[p].noteId) = <<>>

\* C4 witness: deleteNote("a") returned true while another note's content
\* still refers to "a".
C4_Witness ==
    \E p \in Procs, i \in DOMAIN notes :
        /\ res[p].kind = "delete" /\ res[p].status = "true"
        /\ res[p].noteId = <<"a">>
        /\ \E k \in 1..Len(extractLinks(notes[i].content)) :
               extractLinks(notes[i].content)[k].to = <<"a">>

\* C5: a createNote or updateNote whose content refers to a target that has no
\* note (and that fails for no other reason) succeeds and leaves the reference
\* row and the reciprocal backlink row of every link.
C5_DanglingReferenceSucceeds ==
    [][\A p \in Procs :
          (/\ Ends(p)
           /\ pc[p] \in {"create_db", "update_write"}
           /\ res'[p].error \notin {"EIO", "SQLITE_CONSTRAINT_UNIQUE"}
           /\ \E k \in 1..Len(Intended(p).links) :
                  Intended(p).links[k].to \notin DOMAIN notes')
          => /\ res'[p].status = "ok"
             /\ \A k \in 1..Len(Intended(p).links) :
                   /\ HasRow(Db', ReferenceRowsFor(Intended(p))[k])
                   /\ HasRow(Db', [from_id |-> Intended(p).links[k].to,
                                   to_id |-> Intended(p).id,
                                   type |-> "backlink", context |-> <<>>])]_vars

\* C6: after createNote of a note A whose content refers to title T and then
\* createNote of a note B with title T (two calls, nothing else), getLinks of
\* B's id with direction 'incoming' returns a link whose origin is A.
C6_LaterNoteSeesIncoming ==
    \A p \in Procs, a \in DOMAIN notes, b \in DOMAIN notes :
        (/\ AllIdle /\ calls = 2
         /\ a # b
         /\ res[p].kind = "create" /\ res[p].status = "ok" /\ res[p].noteId = b
         /\ \E k \in 1..Len(extractLinks(notes[a].content)) :
                extractLinks(notes[a].content)[k].to = notes[b].title)
        => \E k \in 1..Len(getLinks(Db, b, "incoming", 100).links) :
               getLinks(Db, b, "incoming", 100).links[k].to = a

\* C7: the links relation never holds two backlink rows with the same origin
\* and the same target.
C7_NoDuplicateBacklink ==
    \A i \in 1..Len(links), j \in 1..Len(links) :
        (i < j /\ links[i].type = "backlink" /\ links[j].type = "backlink")
        => ~(links[i].from_id = links[j].from_id /\ links[i].to_id = links[j].to_id)

\* C8: every step of a createNote whose derived id is the id of an existing
\* note leaves the notes, links and search relations unchanged, and the call
\* ends with an error (callers not overlapping).
C8_DuplicateCreateRejected ==
    [][\A p \in Procs :
          (/\ pc'[p] # pc[p]
           /\ (IF Idle(p) THEN op'[p] ELSE op[p]).kind = "create"
           /\ (IF Idle(p) THEN op'[p] ELSE op[p]).noteId \in DOMAIN notes)
          => /\ notes' = notes /\ links' = links /\ fts' = fts
             /\ Ends(p) => res'[p].status = "error"]_vars

\* C8 witness: a createNote of title "A" was rejected for the id "a" of the
\* existing note titled "a", after writing its own mirror file.
C8_Witness ==
    \E p \in Procs :
        /\ res[p].kind = "create" /\ res[p].error = "SQLITE_CONSTRAINT_UNIQUE"
        /\ res[p].noteId = <<"a">>
        /\ <<"a">> \in DOMAIN notes /\ notes[<<"a">>].title = <<"a">>
        /\ FilePath(<<"A">>) \in DOMAIN files

\* C9: when updateNote succeeds, the reference rows whose origin is the note,
\* and the links of the returned note, are the links extracted from the note's
\* resulting content.
C9_LinksFollowResultingContent ==
    [][\A p \in Procs :
          (Ends(p) /\ op[p].kind = "update" /\ res'[p].status = "ok")
          => /\ op[p].updated.links = extractLinks(op[p].updated.content)
             /\ ReferenceRowsFrom(Db', op[p].noteId)
                  = ReferenceRowsFor([op[p].updated EXCEPT
                        !.links = extractLinks(op[p].updated.content)])]_vars

\* C10: in every step, a note that exists before and after keeps its id and
\* its created timestamp, and its modified timestamp does not decrease.
C10_CreatedFixedModifiedMonotone ==
    [][\A i \in DOMAIN notes \cap DOMAIN notes' :
          /\ notes'[i].id = notes[i].id
          /\ notes'[i].created = notes[i].created
          /\ notes'[i].modified >= notes[i].modified]_vars

\* C10 witness: a note modified later than it was created, with two overlapping
\* updateNote calls of it both past their UPDATE statement.
C10_Witness ==
    \E i \in DOMAIN notes :
        /\ notes[i].modified > notes[i].created
        /\ \E p \in Procs, q \in Procs :
               /\ p # q
               /\ op[p].kind = "update" /\ op[p].noteId = i /\ pc[p] = "update_write"
               /\ op[q].kind = "update" /\ op[q].noteId = i /\ pc[q] = "update_write"

\* The createNote of caller p returns its note in this step: to the caller, or
\* to the scan that called it, which then logs nothing.
CreateReturns(p) ==
    /\ pc[p] = "create_db" /\ pc'[p] # "create_db"
    /\ IF op[p].scan.active
       THEN op'[p].scan.done[Len(op'[p].scan.done)].outcome = "imported"
       ELSE res'[p].status = "ok"

\* C11: when a createNote returns its note, readNote of the derived id finds a
\* note with the title, content and tags the call was given, whose created
\* and modified timestamps are equal.
C11_CreateThenRead ==
    [][\A p \in Procs :
          CreateReturns(p)
          => LET r == readNote(Db', op[p].noteId)
             IN /\ r.found
                /\ r.note.title = op[p].note.title
                /\ r.note.content = op[p].note.content
                /\ r.note.tags = op[p].note.tags
                /\ r.note.created = r.note.modified]_vars

\* C11 witness: the startup scan has imported, with nothing logged, the
\* document whose header gives the title "A" and the tag "t".
C11_Witness ==
    \E p \in Procs, i \in DOMAIN notes :
        /\ op[p].kind = "scan" /\ op[p].scan.index > 1 /\ Logged(op[p].scan) = <<>>
        /\ notes[i].title = <<"A">>
        /\ notes[i].content = FrontmatterContent
        /\ readNote(Db, i).note.tags = << <<"t">> >>

\* C12: a deleteNote that returns true leaves no note that readNote finds under
\* the id; a deleteNote of an id under which there is no note returns false
\* and changes nothing; and an id without a note gets one only by a createNote
\* of that id (callers not overlapping).
C12_DeleteThenAbsent ==
    [][/\ \A p \in Procs :
            (op[p].kind = "delete" /\ pc'[p] # pc[p])
            => /\ (Ends(p) /\ res'[p].status = "true")
                    => ~readNote(Db', op[p].noteId).found
               /\ (pc[p] = "delete_db" /\ ~readNote(Db, op[p].noteId).found)
                    => /\ Ends(p) /\ res'[p].status = "false"
                       /\ notes' = notes /\ links' = links /\ fts' = fts
                       /\ files' = files
       /\ \A i \in DOMAIN notes' \ DOMAIN notes :
            \E p \in Procs : op[p].kind = "create" /\ op[p].noteId = i]_vars

\* C12 witness: createNote("a"), a deleteNote("a") that returned true (its
\* unlink failed, so the mirror file is still there), then a deleteNote("a")
\* that returned false.
C12_Witness ==
    \E p \in Procs :
        /\ res[p].kind = "delete" /\ res[p].status = "false" /\ res[p].noteId = <<"a">>
        /\ calls = 3
        /\ <<"a">> \notin DOMAIN notes
        /\ FilePath(<<"a">>) \in DOMAIN files

\* C13: once an updateNote and a deleteNote of the same id have both finished,
\* the delete having returned true (and no note has the id again), no search
\* entry has the id and no links row has it as its origin.
C13_UpdateCannotRecreate ==
    \A p \in Procs, q \in Procs :
        (/\ res[p].kind = "delete" /\ res[p].status = "true"
         /\ res[q].kind = "update" /\ res[q].noteId = res[p].noteId
         /\ res[p].noteId \notin DOMAIN notes)
        => /\ EntriesOf(Db, res[p].noteId) = <<>>
           /\ RowsFrom(Db, res[p].noteId) = <<>>

\* C14: in every state, with callers overlapping, no two notes rows have the
\* same id and no two have the same path.
C14_IdAndPathUnique ==
    \A i \in DOMAIN notes, j \in DOMAIN notes :
        i # j => (notes[i].id # notes[j].id /\ notes[i].path # notes[j].path)

\* C14 witness: a scan found the mirror file of a createNote in flight, saw no
\* note with its path, and is about to INSERT the same id, which the
\* createNote has inserted meanwhile.
C14_Witness ==
    \E p \in Procs, q \in Procs :
        /\ op[p].scan.active /\ op[p].kind = "create" /\ pc[p] = "create_db"
        /\ res[q].kind = "create" /\ res[q].status = "ok"
        /\ res[q].noteId = op[p].noteId
        /\ op[p].noteId \in DOMAIN notes
        /\ notes[op[p].noteId].path = op[p].note.path

\* The startup scan, the first call over a store without notes, returns in
\* this step.
FirstScanReturns(p) ==
    /\ Ends(p) /\ op[p].kind = "scan" /\ res'[p].status = "ok"
    /\ calls = 1

\* Caller p is in a scan called right after the startup scan had returned.
InSecondScan(p) ==
    /\ op[p].scan.active /\ calls = 2
    /\ op[p].scan.prev.kind = "scan" /\ op[p].scan.prev.status = "ok"

\* The files a scan left without a note of their own: those it skipped as
\* already represented, and those whose read, mirror write or INSERT failed.
NotImported(scan) ==
    SelectSeq(scan.done, LAMBDA d : d.outcome \in {"skipped", "EIO", "SQLITE_CONSTRAINT_UNIQUE"})

IoFailures(log) == SelectSeq(log, LAMBDA d : d.outcome = "EIO")

\* C15: a scan over n document files against a store without notes, no read
\* or mirror write failing, leaves exactly n notes, and no step of a second
\* scan right after it changes the notes, links or search relations.
C15_ScanImportsEachFileOnce ==
    [][\A p \in Procs :
          /\ (FirstScanReturns(p) /\ IoFailures(Logged(op[p].scan)) = <<>>)
               => Cardinality(DOMAIN notes') = Len(op[p].scan.list)
          /\ (InSecondScan(p) /\ IoFailures(op[p].scan.prev.logged) = <<>>)
               => (notes' = notes /\ links' = links /\ fts' = fts)]_vars

\* C15 as amended: the scan leaves exactly one note for each of the n files
\* that it neither skipped as already represented nor failed to read, to
\* mirror or to INSERT; and no step of a second scan, right after a scan that
\* logged no read or write failure, changes the notes, links or search
\* relations.
C15_ScanImportsEachImportableFileOnce ==
    [][\A p \in Procs :
          /\ FirstScanReturns(p)
               => Cardinality(DOMAIN notes')
                    = Len(op[p].scan.list) - Len(NotImported(op[p].scan))
          /\ (InSecondScan(p) /\ IoFailures(op[p].scan.prev.logged) = <<>>)
               => (notes' = notes /\ links' = links /\ fts' = fts)]_vars

\* C15 witness: the startup scan imported both of its two files and logged
\* nothing, and a second scan has been through the vault's three files.
C15_Witness ==
    \E p \in Procs :
        /\ InSecondScan(p) /\ op[p].scan.prev.logged = <<>>
        /\ pc[p] = "scan_read" /\ op[p].scan.index > Len(op[p].scan.list)
        /\ Len(op[p].scan.list) = 3
        /\ Cardinality(DOMAIN notes) = 2

\* After the step, a note stands for the document at path: it has that path,
\* or it has the document's content and the title the document's header gives.
RepresentedAfter(path) ==
    \/ NoteAtPath(Db', path)
    \/ /\ path \in DOMAIN files'
       /\ parseFrontmatter(files'[path]).title.has
       /\ \E i \in DOMAIN notes' :
              /\ notes'[i].content = files'[path]
              /\ notes'[i].title = parseFrontmatter(files'[path]).title.val

\* C16: a scan that has listed its files returns without an error, having
\* been through every listed file in order, whatever failed on the way; and
\* every file it did not log as failed is represented by a note (callers not
\* overlapping).
C16_ScanSurvivesFileFailures ==
    [][\A p \in Procs :
          (Ends(p) /\ op[p].kind = "scan" /\ pc[p] = "scan_read")
          => /\ res'[p].status = "ok"
             /\ Len(op[p].scan.done) = Len(op[p].scan.list)
             /\ \A k \in 1..Len(op[p].scan.done) :
                   /\ op[p].scan.done[k].file = op[p].scan.list[k]
                   /\ op[p].scan.done[k].outcome \in {"skipped", "imported"}
                        => RepresentedAfter(<<vaultPath, op[p].scan.list[k]>>)]_vars

\* C16 witness: the createNote for the first file of a scan threw (its
\* content refers to a title without a note), and the scan went on to import
\* the second file and is about to return.
C16_Witness ==
    \E p \in Procs :
        /\ op[p].kind = "scan" /\ pc[p] = "scan_read"
        /\ op[p].scan.index > Len(op[p].scan.list)
        /\ Len(op[p].scan.done) = 2
        /\ op[p].scan.done[1].outcome = "SQLITE_CONSTRAINT_FOREIGNKEY"
        /\ op[p].scan.done[2].outcome = "imported"

\* The queries, tag lists and limits search is called with.
SearchQuery == <<"a">>

SearchTags == { <<>>, << <<"t">> >>, << <<"t">>, <<"u">> >> }

SearchLimits == {1, 50}

\* The notes that search(SearchQuery, tags, ...) is to return: those whose
\* title or content has the word and, when tags are given, whose tags include
\* one of them.
SearchWanted(tags) ==
    {i \in DOMAIN notes :
        /\ FtsMatch([title |-> notes[i].title, content |-> notes[i].content], SearchQuery)
        /\ tags # <<>> => \E k \in 1..Len(tags) : tags[k] \in JsonEach(notes[i].tags)}

\* C17: with no tags, one tag or two tags, when some note is to be returned,
\* search returns without an error, only notes that are to be returned, at
\* most limit of them, and all of them when they are fewer than limit.
C17_SearchFiltersByAnyTag ==
    \A tags \in SearchTags, limit \in SearchLimits :
        SearchWanted(tags) # {}
        => LET r == search(Db, SearchQuery, tags, limit)
               got == {r.rows[k].noteId : k \in 1..Len(r.rows)}
           IN /\ r.ok
              /\ got \subseteq SearchWanted(tags)
              /\ Len(r.rows) <= limit
              /\ Len(r.rows) < limit => got = SearchWanted(tags)

\* C18: no step of a createNote with an empty title, the call itself
\* included, changes the notes, links or search relations or the vault's
\* files, and the call ends with an error.
C18_EmptyTitleRejected ==
    [][\A p \in Procs :
          (/\ pc'[p] # pc[p]
           /\ (IF Idle(p) THEN op'[p] ELSE op[p]).kind = "create"
           /\ (IF Idle(p) THEN op'[p] ELSE op[p]).note.title = <<>>)
          => /\ notes' = notes /\ links' = links /\ fts' = fts
             /\ files' = files
             /\ Ends(p) => res'[p].status = "error"]_vars

\* The backlink rows of db whose origin is noteId, written because another
\* note refers to it.
BacklinkRowsFrom(db, noteId) ==
    SelectSeq(db.links, LAMBDA r :
        r.from_id = noteId /\ r.type = "backlink" /\ r.to_id # noteId)

\* C19: the step of a createNote or updateNote of note N that replaces the
\* links of N keeps every backlink row whose origin is N and whose target is
\* another note.
C19_ReplaceKeepsBacklinks ==
    [][\A p \in Procs :
          (/\ op[p].kind \in {"create", "update"}
           /\ pc[p] \in {"create_db", "update_write"}
           /\ pc'[p] # pc[p])
          => LET before == BacklinkRowsFrom(Db, op[p].noteId)
                 after == BacklinkRowsFrom(Db', op[p].noteId)
             IN /\ Len(before) <= Len(after)
                /\ SubSeq(after, 1, Len(before)) = before]_vars

\* C20: whenever no call is running, every backlink row from X to N has a
\* reference row from N to X.
C20_BacklinkHasReference ==
    AllIdle =>
        \A i \in 1..Len(links) :
            links[i].type = "backlink"
            => \E j \in 1..Len(links) :
                   /\ links[j].type = "reference"
                   /\ links[j].from_id = links[i].to_id
                   /\ links[j].to_id = links[i].from_id


\* C21: no step of a createNote whose derived id is the id of an existing note
\* changes the vault's files (callers not overlapping).
C21_DuplicateCreateKeepsMirror ==
    [][\A p \in Procs :
          (/\ op[p].kind = "create"
           /\ pc'[p] # pc[p]
           /\ op[p].noteId \in DOMAIN notes)
          => files' = files]_vars


\* C22: once two overlapping updateNote calls of the same note have both
\* returned their note, and no call is running, the mirror file at the note's
\* path is the markdown of the note as the notes relation holds it.
C22_MirrorShowsStoredNote ==
    \A p \in Procs, q \in Procs :
        (/\ AllIdle /\ p # q
         /\ res[p].kind = "update" /\ res[p].status = "ok"
         /\ res[q].kind = "update" /\ res[q].status = "ok"
         /\ res[q].noteId = res[p].noteId
         /\ res[p].noteId \in DOMAIN notes)
        => LET stored == readNote(Db, res[p].noteId).note
           IN /\ stored.path \in DOMAIN files
              /\ files[stored.path] = formatNoteAsMarkdown(stored)


\* C23: when a scan's import of a file returns without failure, the store
\* holds a note whose path is the path of the scanned file (the scan runs
\* on the default vault directory).
C23_ImportedNoteHasScannedPath ==
    [][\A p \in Procs :
          (CreateReturns(p) /\ op[p].scan.active)
          => NoteAtPath(Db', ScanFilePath(p))]_vars

====
